---- MODULE Spec2Model ----
(***************************************************************************)
(* Model of src/main.py: the AutoUpdater (periodic repository sync         *)
(* monitor) of the Elysian-Realm plugin, the manual commands that share    *)
(* its persisted state, the asyncio tasks it schedules, and the alias      *)
(* lookup of the AliasManager.                                             *)
(*                                                                         *)
(* One step of the model is one run of a coroutine between two suspension  *)
(* points of the single-threaded asyncio event loop: code between two      *)
(* awaits that really suspend (network fetch, subprocess, sleep, awaiting  *)
(* a task, a reply yielded to the host) runs atomically.                    *)
(***************************************************************************)
EXTENDS Integers, FiniteSets, Sequences, TLC

----------------------------------------------------------------------------
(* Bounds of the model *)

\* commits the remote repository goes through: references 1..MaxRemote
MaxRemote == 2
\* _check_loop tasks created over one run (asyncio.create_task, lines 72, 275)
MaxLoopTasks == 2
\* _save_config tasks scheduled and not yet run
MaxSaves == 1
\* stop() tasks scheduled by set_auto_update and not yet finished
MaxStops == 1
\* _save_config tasks not yet run, the one set_interval schedules included
MaxPending == 2
\* update_time is a timestamp; the model keeps it modulo ClockMod
ClockMod == 2
\* length of a canonical key of the alias table
MaxKeyLen == 1
\* length of an alternate name of the alias table, and of a query
MaxNameLen == 2
\* entries of the alias table
MaxKeys == 2
\* alternate names in one entry's list
MaxAliases == 1

(* Program constants *)

\* max(300, seconds), line 265
MinInterval == 300
\* self.check_interval = 3600, line 58; config.get('check_interval', 3600), line 82
DefaultInterval == 3600

\* Python's None (a failed fetch, line 162/165; no version file, line 176)
None == -1
\* data.get('sha', '') when the response holds no sha, line 159
EmptySha == 0

TaskIds == 1..MaxLoopTasks

\* check_interval values offered to set_interval and found in auto_update.json
IntervalInputs == {60, 7200}

BOOL == {TRUE, FALSE}

Min(a, b) == IF a <= b THEN a ELSE b
Max(a, b) == IF a >= b THEN a ELSE b

----------------------------------------------------------------------------
VARIABLES
  phase,           \* plugin lifecycle: "constructed", "initialized", "terminated"
  check_interval,  \* AutoUpdater.check_interval
  auto_update,     \* AutoUpdater.auto_update
  notify_admin,    \* AutoUpdater.notify_admin
  running,         \* AutoUpdater._running
  task,            \* AutoUpdater._task: a task id, or None
  loops,           \* the _check_loop tasks, by task id
  created,         \* number of _check_loop tasks created so far
  saves,           \* scheduled _save_config tasks not yet run
  stops,           \* scheduled stop() tasks not yet started
  stopAwait,       \* stop() tasks suspended in `await self._task`, by awaited task id
  term,            \* terminate(): its stop() call
  config_file,     \* auto_update.json
  version_file,    \* version.json (the persisted SyncState)
  upd,             \* the update_strategy command handler
  chk,             \* the check_update command handler
  remote_head,     \* the remote repository's current commit
  assets,          \* oldest snapshot a file of the live asset directory comes from
  sts,             \* the update_status command handler
  tgl,             \* the toggle_auto_update command handler
  alias_data,      \* AliasManager.alias_data, the table loaded from alias.yaml
  got              \* the last call of AliasManager.get: its argument and its result

vars == <<phase, check_interval, auto_update, notify_admin, running, task, loops,
          created, saves, stops, stopAwait, term, config_file, version_file,
          upd, chk, remote_head, assets, sts, tgl, alias_data, got>>

lookup == <<alias_data, got>>
config == <<check_interval, auto_update, notify_admin>>
sched == <<saves, stops, stopAwait, term>>

----------------------------------------------------------------------------
(* Files *)

AbsentFile == [state |-> "absent"]
CorruptFile == [state |-> "corrupt"]

VersionDoc(h, t) == [state |-> "ok", commit_hash |-> h, update_time |-> t]
ConfigDoc(ci, au, na) ==
  [state |-> "ok", check_interval |-> ci, auto_update |-> au, notify_admin |-> na]

\* what open(..., 'w') followed by json.dump can do to a file
WriteOutcomes == {"ok", "open_fails", "dump_fails"}

\* the file after `with open(f, 'w') as f: json.dump(doc, f)` (lines 97-98, 185-186):
\* open truncates the file, so a failing dump leaves an unreadable document
WriteFile(old, doc, outcome) ==
  CASE outcome = "ok" -> doc
    [] outcome = "open_fails" -> old
    [] outcome = "dump_fails" -> CorruptFile

\* datetime.now().isoformat(), line 183: a stamp that differs from the previous one
NextStamp(vf) == IF vf.state = "ok" THEN (vf.update_time + 1) % ClockMod ELSE 0

----------------------------------------------------------------------------
(* Exceptions *)

\* `except Exception` (lines 107, 146, 163, 174, 187, 239): since Python 3.8
\* asyncio.CancelledError derives from BaseException and is not caught
ExceptExceptionAll(exc) == TRUE
ExceptExceptionNone(exc) == FALSE
ExceptException(exc) == exc # "CancelledError"

----------------------------------------------------------------------------
(* AutoUpdater: pure parts *)

\* _get_local_commit, lines 167-176
GetLocalCommit(vf) == IF vf.state = "ok" THEN vf.commit_hash ELSE None

\* _save_local_commit, lines 178-188
SaveLocalCommitWritesNothing(vf, commit_hash, outcome) == vf
SaveLocalCommit(vf, commit_hash, outcome) ==
  WriteFile(vf, VersionDoc(commit_hash, NextStamp(vf)), outcome)

\* what the awaited GitHub request of _get_remote_commit can end in
FetchOutcomes == {"sha", "nosha", "http_error", "raises"}

\* _get_remote_commit, lines 149-165: the value returned
GetRemoteCommit(outcome, sha) ==
  CASE outcome = "sha" -> sha
    [] outcome = "nosha" -> EmptySha
    [] outcome = "http_error" -> None
    [] outcome = "raises" -> None

\* `if not remote_commit`, lines 118, 540; `if remote_commit`, line 513
TruthyAlways(r) == TRUE
Truthy(r) == r # None /\ r # EmptySha

\* `if remote_commit != local_commit`, lines 125, 544
NeedsUpdateAlways(remote, local) == TRUE
NeedsUpdate(remote, local) == remote # local

\* what git clone and the copy loop can end in (lines 209-237, 481-508)
CloneOutcomes == {"ok", "nonzero", "nodir", "spawn_raises", "copy_raises"}

\* _perform_update, lines 190-241: its return value
PerformUpdateIgnoresClone(outcome) == outcome \in {"ok", "nonzero", "nodir"}
PerformUpdate(outcome) == outcome = "ok"

\* how git clone ended: `process.returncode`, lines 217, 489; "raised" when
\* create_subprocess_exec raises
CloneExit(outcome) ==
  CASE outcome \in {"ok", "nodir", "copy_raises"} -> "zero"
    [] outcome = "nonzero" -> "nonzero"
    [] outcome = "spawn_raises" -> "raised"

\* how far the copy loop (lines 230-234, 504-508) got
Copied(outcome) ==
  CASE outcome = "ok" -> "all"
    [] outcome = "copy_raises" -> "partial"
    [] OTHER -> "none"

\* the asset directory after the copy loop (lines 230-234, 504-508) ran on a clone
\* of snapshot s: a full copy replaces every file, a copy that raises part-way
\* leaves some files of the older content
CopyAssets(old, s, outcome) ==
  CASE outcome = "ok" -> s
    [] outcome = "copy_raises" -> Min(old, s)
    [] OTHER -> old

\* max(300, seconds), line 265
ClampInterval(seconds) == Max(MinInterval, seconds)

\* _load_config, lines 75-86: the three values after loading
LoadConfig(cf) ==
  IF cf.state = "ok"
  THEN <<cf.check_interval, cf.auto_update, cf.notify_admin>>
  ELSE <<DefaultInterval, TRUE, TRUE>>

----------------------------------------------------------------------------
\* _check_admin, lines 633-652: an event whose is_admin attribute decides, an
\* event without the attribute (allowed by default), an event whose accessors raise
Events == {"admin", "member", "no_attr", "raises"}
CheckAdmin(ev) ==
  CASE ev = "admin" -> TRUE
    [] ev = "member" -> FALSE
    [] ev = "no_attr" -> TRUE
    [] ev = "raises" -> FALSE

\* `if not await self._check_admin(event)`, lines 444, 569
RefusesNobody(ev) == FALSE
Refuses(ev) == ~CheckAdmin(ev)

\* what _check_admin returned to the handler
AdminResult(ev) == IF CheckAdmin(ev) THEN "allowed" ELSE "refused"

----------------------------------------------------------------------------
(* AliasManager *)

\* A string is a sequence of characters. "A" is the upper case of "a" ("b" has
\* no upper case in the alphabet); " " stands for any whitespace.
Letters == {"a", "A", "b"}
Whitespace == {" "}
Chars == Letters \cup Whitespace

\* the strings over S of length lo..hi
Strings(S, lo, hi) == UNION {[1..k -> S] : k \in lo..hi}

\* Python's None where a name is expected (lines 26, 44)
NoName == <<"None">>

\* str.lower(), lines 28, 38, 41
Lower(s) == [i \in DOMAIN s |-> IF s[i] = "A" THEN "a" ELSE s[i]]

\* str.strip(), line 28: leading and trailing whitespace removed
Strip(s) ==
  LET kept == {i \in DOMAIN s : s[i] \notin Whitespace}
  IN IF kept = {} THEN <<>>
     ELSE SubSeq(s, CHOOSE i \in kept : \A j \in kept : i <= j,
                    CHOOSE i \in kept : \A j \in kept : i >= j)

\* `needle in hay` for two strings, lines 38, 41
Contains(hay, needle) ==
  \E i \in 0..(Len(hay) - Len(needle)) : SubSeq(hay, i + 1, i + Len(needle)) = needle

\* the values of alias.yaml's entries: a list of names, one name, or a value of
\* another type (lines 36, 40)
AliasList(names) == [kind |-> "list", items |-> names]
AliasStr(s) == [kind |-> "str", items |-> <<s>>]
AliasOther == [kind |-> "other", items |-> <<>>]

\* `alias.lower() == name or name in alias.lower()`, lines 38, 41
AliasMatches(alias, name) == Lower(alias) = name \/ Contains(Lower(alias), name)

\* the body of the loop of line 35 for one entry: lines 36-42
EntryMatches(aliases, name) ==
  /\ aliases.kind \in {"list", "str"}
  /\ \E i \in DOMAIN aliases.items : AliasMatches(aliases.items[i], name)

\* `name in self.alias_data`, line 31: the keys are compared as stored
HasKey(table, name) == \E i \in DOMAIN table : table[i].key = name

\* AliasManager.get, lines 22-44. The table is the dict in its iteration order.
Get(table, name) ==
  LET n == Lower(Strip(name))
      hits == {i \in DOMAIN table : EntryMatches(table[i].aliases, n)}
  IN IF HasKey(table, n) THEN n
     ELSE IF hits # {} THEN table[CHOOSE i \in hits : \A j \in hits : i <= j].key
     ELSE NoName

----------------------------------------------------------------------------
(* _check_loop tasks *)

\* pc is the await the task is suspended in; since is the remote commit at the
\* start of the pending request; remote_commit is the reference the cycle fetched;
\* clone, copied, wrote, notified and report record what the current (or, in the
\* sleep, the last) cycle did
NoLoop == [pc |-> "none", must_cancel |-> FALSE, since |-> 0, remote_commit |-> None,
           clone |-> "none", copied |-> "none", wrote |-> "none", notified |-> FALSE,
           report |-> "none"]

Ended == {"returned", "cancelled", "crashed"}
Suspended == {"ready", "fetch", "clone", "sleep"}

\* asyncio.create_task(self._check_loop()), lines 72, 275
NewLoop == [NoLoop EXCEPT !.pc = "ready"]

\* the end of a cycle and `await asyncio.sleep(self.check_interval)`, line 111
ToSleep(l, report) ==
  [l EXCEPT !.pc = "sleep", !.report = report, !.since = 0]

\* an exception nothing catches ends the task
Crashed(l) == [NoLoop EXCEPT !.pc = "crashed"]

\* `while self._running:` (line 104) and the start of _check_and_update up to the
\* request of _get_remote_commit (line 156), at the task's first step and after
\* each sleep
CheckLoopIterate(t) ==
  /\ loops[t].pc \in {"ready", "sleep"}
  /\ ~loops[t].must_cancel
  /\ loops' = [loops EXCEPT ![t] =
       IF running
       THEN [NoLoop EXCEPT !.pc = "fetch", !.since = remote_head]
       ELSE [NoLoop EXCEPT !.pc = "returned"]]
  /\ UNCHANGED <<phase, config, running, task, created, sched, config_file,
                 version_file, upd, chk, remote_head, assets, lookup, sts, tgl>>

\* the response of _get_remote_commit arrives: lines 117-126 and 143-144, up to the
\* start of git clone (line 209) or to the sleep (line 111)
CheckLoopFetched(t) ==
  /\ loops[t].pc = "fetch"
  /\ ~loops[t].must_cancel
  /\ \E outcome \in FetchOutcomes, sha \in loops[t].since..remote_head :
       LET r == GetRemoteCommit(outcome, sha)
           l == loops[t]
       IN loops' = [loops EXCEPT ![t] =
            IF outcome = "raises" /\ ~ExceptException("Exception")
            THEN Crashed(l)
            ELSE IF ~Truthy(r)
            THEN ToSleep([l EXCEPT !.remote_commit = r], "fetch_failed")
            ELSE IF NeedsUpdate(r, GetLocalCommit(version_file))
            THEN [l EXCEPT !.pc = "clone", !.remote_commit = r,
                           !.since = remote_head, !.clone = "running"]
            ELSE ToSleep([l EXCEPT !.remote_commit = r], "up_to_date")]
  /\ UNCHANGED <<phase, config, running, task, created, sched, config_file,
                 version_file, upd, chk, remote_head, assets, lookup, sts, tgl>>

\* git clone ends: the rest of _perform_update (lines 215-241), then lines 131-142
\* and the sleep. Nothing here suspends: shutil.copy2, the write of the version
\* file and _notify_admin are synchronous.
CheckLoopCloned(t) ==
  /\ loops[t].pc = "clone"
  /\ ~loops[t].must_cancel
  /\ \E outcome \in CloneOutcomes, snap \in loops[t].since..remote_head,
        w \in WriteOutcomes :
       LET l == [loops[t] EXCEPT !.clone = CloneExit(outcome),
                                 !.copied = Copied(outcome)]
           raised == outcome \in {"spawn_raises", "copy_raises"}
           success == PerformUpdate(outcome)
       IN /\ assets' = CopyAssets(assets, snap, outcome)
          /\ IF raised /\ ~ExceptException("Exception")
             THEN /\ loops' = [loops EXCEPT ![t] = Crashed(l)]
                  /\ UNCHANGED version_file
             ELSE IF success
             THEN /\ version_file' = SaveLocalCommit(version_file, l.remote_commit, w)
                  /\ loops' = [loops EXCEPT ![t] =
                       [ToSleep(l, "success") EXCEPT !.wrote = w,
                                                     !.notified = notify_admin]]
             ELSE /\ UNCHANGED version_file
                  /\ loops' = [loops EXCEPT ![t] =
                       [ToSleep(l, "failure") EXCEPT !.notified = notify_admin]]
  /\ UNCHANGED <<phase, config, running, task, created, sched, config_file, upd, chk,
                 remote_head, lookup, sts, tgl>>

\* task.cancel() (line 256) makes the task's pending await raise CancelledError.
\* Before the first step and in the sleep (line 111) no try block is open. In the
\* fetch the innermost handler is line 163 (the cycle then returns at line 119),
\* in the clone it is line 239 (_perform_update then returns False).
CheckLoopCancelled(t) ==
  /\ loops[t].pc \in Suspended
  /\ loops[t].must_cancel
  /\ LET l == [loops[t] EXCEPT !.must_cancel = FALSE]
         caught == l.pc \in {"fetch", "clone"} /\ ExceptException("CancelledError")
     IN loops' = [loops EXCEPT ![t] =
          IF ~caught
          THEN [NoLoop EXCEPT !.pc = "cancelled"]
          ELSE IF l.pc = "fetch"
          THEN ToSleep(l, "fetch_failed")
          ELSE [ToSleep(l, "failure") EXCEPT !.clone = "raised",
                                             !.notified = notify_admin]]
  /\ UNCHANGED <<phase, config, running, task, created, sched, config_file,
                 version_file, upd, chk, remote_head, assets, lookup, sts, tgl>>

----------------------------------------------------------------------------
(* stop(), terminate(), the setters and the tasks they schedule *)

SumAwait == LET RECURSIVE Sum(_)
                Sum(S) == IF S = {} THEN 0
                          ELSE LET x == CHOOSE y \in S : TRUE
                               IN stopAwait[x] + Sum(S \ {x})
            IN Sum(TaskIds)

\* self._task.cancel(), line 256: a task that has ended ignores it
CancelTask(ls, t) ==
  IF t # None /\ ls[t].pc \notin Ended
  THEN [ls EXCEPT ![t].must_cancel = TRUE]
  ELSE ls

\* `await self._task` (line 258) suspends unless there is no task or it has ended
StopMustWait(t) == t # None /\ loops[t].pc \notin Ended

\* a scheduled stop() task runs lines 254-258
StopRun ==
  /\ stops > 0
  /\ stops' = stops - 1
  /\ running' = FALSE
  /\ loops' = CancelTask(loops, task)
  /\ stopAwait' = IF StopMustWait(task)
                  THEN [stopAwait EXCEPT ![task] = @ + 1]
                  ELSE stopAwait
  /\ UNCHANGED <<phase, config, task, created, saves, term, config_file, version_file,
                 upd, chk, remote_head, assets, lookup, sts, tgl>>

\* the awaited task has ended: lines 259-261
StopReturn(t) ==
  /\ stopAwait[t] > 0
  /\ loops[t].pc \in Ended
  /\ stopAwait' = [stopAwait EXCEPT ![t] = @ - 1]
  /\ UNCHANGED <<phase, config, running, task, loops, created, saves, stops, term,
                 config_file, version_file, upd, chk, remote_head, assets, lookup, sts,
                 tgl>>

\* terminate(), lines 654-658: stop() called directly, lines 254-258
Terminate ==
  /\ phase = "initialized"
  /\ phase' = "terminated"
  /\ running' = FALSE
  /\ loops' = CancelTask(loops, task)
  /\ term' = [pc |-> IF StopMustWait(task) THEN "await" ELSE "returned", target |-> task]
  /\ UNCHANGED <<config, task, created, saves, stops, stopAwait, config_file,
                 version_file, upd, chk, remote_head, assets, lookup, sts, tgl>>

\* terminate()'s stop() resumes: lines 259-261
TerminateReturn ==
  /\ term.pc = "await"
  /\ loops[term.target].pc \in Ended
  /\ term' = [term EXCEPT !.pc = "returned"]
  /\ UNCHANGED <<phase, config, running, task, loops, created, saves, stops, stopAwait,
                 config_file, version_file, upd, chk, remote_head, assets, lookup, sts,
                 tgl>>

\* set_interval, lines 263-266
SetInterval(seconds) ==
  /\ phase = "initialized"
  /\ saves < MaxPending
  /\ check_interval' = ClampInterval(seconds)
  /\ saves' = saves + 1
  /\ UNCHANGED <<phase, auto_update, notify_admin, running, task, loops, created,
                 stops, stopAwait, term, config_file, version_file, upd, chk,
                 remote_head, assets, lookup, sts, tgl>>

\* `if enabled and not self._running`, line 273
StartsLoopAlways(enabled) == enabled
StartsLoop(enabled) == enabled /\ ~running

\* `elif not enabled and self._running`, line 276
SchedulesStop(enabled) == ~enabled /\ running

\* set_auto_update, lines 268-277
SetAutoUpdateCall(enabled) ==
  /\ phase = "initialized"
  /\ saves < MaxSaves
  /\ auto_update' = enabled
  /\ saves' = saves + 1
  /\ IF StartsLoop(enabled)
     THEN /\ created < MaxLoopTasks
          /\ running' = TRUE
          /\ created' = created + 1
          /\ task' = created + 1
          /\ loops' = [loops EXCEPT ![created + 1] = NewLoop]
          /\ UNCHANGED stops
     ELSE IF SchedulesStop(enabled)
     THEN /\ stops + SumAwait < MaxStops
          /\ stops' = stops + 1
          /\ UNCHANGED <<running, created, task, loops>>
     ELSE UNCHANGED <<running, created, task, loops, stops>>
  /\ UNCHANGED <<phase, check_interval, notify_admin, stopAwait, term, config_file,
                 version_file, upd, chk, remote_head, assets, lookup, sts>>

\* set_auto_update called for an administrator's command, the replies left out
SetAutoUpdate(enabled) == SetAutoUpdateCall(enabled) /\ UNCHANGED tgl

\* the document _save_config builds, lines 92-96
ConfigToSaveAsConstructed == ConfigDoc(DefaultInterval, auto_update, notify_admin)
ConfigToSave == ConfigDoc(check_interval, auto_update, notify_admin)

\* a scheduled _save_config task runs, lines 88-100, its write ending as w
SaveConfigWrites(w) ==
  /\ saves > 0
  /\ saves' = saves - 1
  /\ config_file' = WriteFile(config_file, ConfigToSave, w)
  /\ UNCHANGED <<phase, config, running, task, loops, created, stops, stopAwait, term,
                 version_file, upd, chk, remote_head, assets, lookup, sts, tgl>>

\* a scheduled _save_config task runs, lines 88-100
SaveConfig == \E w \in WriteOutcomes : SaveConfigWrites(w)

\* a scheduled _save_config task runs and its write does not fail
SaveConfigWritten == SaveConfigWrites("ok")

\* AutoUpdater.initialize, lines 64-73
Initialize ==
  /\ phase = "constructed"
  /\ phase' = "initialized"
  /\ LET c == LoadConfig(config_file)
     IN /\ check_interval' = c[1]
        /\ auto_update' = c[2]
        /\ notify_admin' = c[3]
        /\ IF c[2]
           THEN /\ running' = TRUE
                /\ created' = created + 1
                /\ task' = created + 1
                /\ loops' = [loops EXCEPT ![created + 1] = NewLoop]
           ELSE UNCHANGED <<running, created, task, loops>>
  /\ UNCHANGED <<sched, config_file, version_file, upd, chk, remote_head, assets,
                 lookup, sts, tgl>>

----------------------------------------------------------------------------
(* The manual commands *)

\* as for a _check_loop task; replies are the replies the handler yielded, admin is
\* what _check_admin returned to it
IdleUpd == [pc |-> "idle", since |-> 0, remote_commit |-> None, clone |-> "none",
            copied |-> "none", wrote |-> "none", admin |-> "unchecked",
            replies |-> <<>>]
IdleChk == [pc |-> "idle", since |-> 0, remote_commit |-> None, replies |-> <<>>]
IdleSts == [pc |-> "idle", since |-> 0, local_commit |-> None, remote_commit |-> None,
            replies |-> <<>>]
IdleTgl == [admin |-> "unchecked", replies |-> <<>>]

\* the handler ends with one more reply
UpdEnd(u, reply) == [u EXCEPT !.pc = "idle", !.since = 0, !.replies = Append(@, reply)]

\* update_strategy, lines 444-487: the permission check, the first reply and the
\* start of git clone
UpdateStrategy(ev) ==
  /\ phase = "initialized"
  /\ upd.pc = "idle"
  /\ LET u == [IdleUpd EXCEPT !.admin = AdminResult(ev)]
     IN upd' = IF Refuses(ev)
               THEN UpdEnd(u, "denied")
               ELSE [u EXCEPT !.pc = "clone", !.since = remote_head,
                              !.clone = "running", !.replies = <<"started">>]
  /\ UNCHANGED <<phase, config, running, task, loops, created, sched, config_file,
                 version_file, chk, remote_head, assets, lookup, sts, tgl>>

\* git clone ends: lines 487-512, up to the request of _get_remote_commit, or to
\* the failure reply (lines 491, 497, 526)
UpdateStrategyCloned ==
  /\ upd.pc = "clone"
  /\ \E outcome \in CloneOutcomes, snap \in upd.since..remote_head :
       LET u == [upd EXCEPT !.clone = CloneExit(outcome), !.copied = Copied(outcome)]
       IN /\ assets' = CopyAssets(assets, snap, outcome)
          /\ upd' = CASE outcome = "ok" -> [u EXCEPT !.pc = "fetch", !.since = remote_head]
                      [] outcome = "nonzero" -> UpdEnd(u, "clone_failed")
                      [] outcome = "nodir" -> UpdEnd(u, "no_directory")
                      [] outcome \in {"spawn_raises", "copy_raises"} -> UpdEnd(u, "error")
  /\ UNCHANGED <<phase, config, running, task, loops, created, sched, config_file,
                 version_file, chk, remote_head, lookup, sts, tgl>>

\* the response of _get_remote_commit arrives: lines 512-522
UpdateStrategyFetched ==
  /\ upd.pc = "fetch"
  /\ \E outcome \in FetchOutcomes, sha \in upd.since..remote_head, w \in WriteOutcomes :
       LET r == GetRemoteCommit(outcome, sha)
           u == [upd EXCEPT !.remote_commit = r]
       IN IF Truthy(r)
          THEN /\ version_file' = SaveLocalCommit(version_file, r, w)
               /\ upd' = UpdEnd([u EXCEPT !.wrote = w], "done")
          ELSE /\ UNCHANGED version_file
               /\ upd' = UpdEnd(u, "done")
  /\ UNCHANGED <<phase, config, running, task, loops, created, sched, config_file, chk,
                 remote_head, assets, lookup, sts, tgl>>

\* check_update, lines 534-537: the first reply and the request of _get_remote_commit
CheckUpdate ==
  /\ phase = "initialized"
  /\ chk.pc = "idle"
  /\ chk' = [IdleChk EXCEPT !.pc = "fetch", !.since = remote_head,
                            !.replies = <<"checking">>]
  /\ UNCHANGED <<phase, config, running, task, loops, created, sched, config_file,
                 version_file, upd, remote_head, assets, lookup, sts, tgl>>

\* the reply of check_update, lines 540-556
CheckUpdateReplyNeverNew(remote_commit, local_commit) ==
  IF ~Truthy(remote_commit) THEN "fetch_failed" ELSE "up_to_date"
CheckUpdateReply(remote_commit, local_commit) ==
  IF ~Truthy(remote_commit) THEN "fetch_failed"
  ELSE IF NeedsUpdate(remote_commit, local_commit) THEN "new_version"
  ELSE "up_to_date"

\* the response arrives: lines 537-556
CheckUpdateFetched ==
  /\ chk.pc = "fetch"
  /\ \E outcome \in FetchOutcomes, sha \in chk.since..remote_head :
       LET r == GetRemoteCommit(outcome, sha)
       IN chk' = [pc |-> "idle", since |-> 0, remote_commit |-> r,
                  replies |-> Append(chk.replies,
                                CheckUpdateReply(r, GetLocalCommit(version_file)))]
  /\ UNCHANGED <<phase, config, running, task, loops, created, sched, config_file,
                 version_file, upd, remote_head, assets, lookup, sts, tgl>>

\* the last line of update_status's report, lines 618-625
UpdateStatusReply(remote_commit, local_commit) ==
  IF ~Truthy(remote_commit) THEN "remote_unavailable"
  ELSE IF Truthy(local_commit) /\ local_commit # remote_commit THEN "new_version"
  ELSE "up_to_date"

\* update_status, lines 601-603: the version file is read, then the request of
\* _get_remote_commit is sent
UpdateStatus ==
  /\ phase = "initialized"
  /\ sts.pc = "idle"
  /\ sts' = [IdleSts EXCEPT !.pc = "fetch", !.since = remote_head,
                            !.local_commit = GetLocalCommit(version_file)]
  /\ UNCHANGED <<phase, config, running, task, loops, created, sched, config_file,
                 version_file, upd, chk, remote_head, assets, lookup, tgl>>

\* the response arrives: lines 603-627
UpdateStatusFetched ==
  /\ sts.pc = "fetch"
  /\ \E outcome \in FetchOutcomes, sha \in sts.since..remote_head :
       LET r == GetRemoteCommit(outcome, sha)
       IN sts' = [sts EXCEPT !.pc = "idle", !.since = 0, !.remote_commit = r,
                             !.replies = <<UpdateStatusReply(r, sts.local_commit)>>]
  /\ UNCHANGED <<phase, config, running, task, loops, created, sched, config_file,
                 version_file, upd, chk, remote_head, assets, lookup, tgl>>

\* the argument of toggle_auto_update after strip().lower(), lines 573-588: one of
\* the words that switch on, one of those that switch off, anything else
ToggleWords == {"on", "off", "other"}

\* toggle_auto_update, lines 569-593
ToggleAutoUpdate(ev, action) ==
  /\ phase = "initialized"
  /\ IF Refuses(ev)
     THEN /\ tgl' = [admin |-> AdminResult(ev), replies |-> <<"denied">>]
          /\ UNCHANGED <<config, running, task, loops, created, sched>>
     ELSE IF action = "other"
     THEN /\ tgl' = [admin |-> AdminResult(ev), replies |-> <<"usage">>]
          /\ UNCHANGED <<config, running, task, loops, created, sched>>
     ELSE /\ SetAutoUpdateCall(action = "on")
          /\ tgl' = [admin |-> AdminResult(ev),
                     replies |-> <<IF action = "on" THEN "enabled" ELSE "disabled">>]
  /\ UNCHANGED <<phase, config_file, version_file, upd, chk, remote_head, assets,
                 lookup, sts>>

----------------------------------------------------------------------------
(* Alias lookup *)

\* a call of AliasManager.get (line 364), lines 22-44
AliasManagerGet(name) ==
  /\ got' = [name |-> name, result |-> Get(alias_data, name)]
  /\ UNCHANGED <<phase, config, running, task, loops, created, sched, config_file,
                 version_file, upd, chk, remote_head, assets, sts, tgl, alias_data>>

----------------------------------------------------------------------------
(* The environment *)

\* a commit is pushed to the remote repository
RemoteAdvance ==
  /\ remote_head < MaxRemote
  /\ remote_head' = remote_head + 1
  /\ UNCHANGED <<phase, config, running, task, loops, created, sched, config_file,
                 version_file, upd, chk, assets, lookup, sts, tgl>>

----------------------------------------------------------------------------
(* The state machine *)

\* auto_update.json as the plugin can find it at start
InitConfigFiles ==
  {AbsentFile, ConfigDoc(60, TRUE, FALSE), ConfigDoc(7200, FALSE, TRUE)}

\* what alias.yaml can hold: canonical keys with their alternate names
KeyNames == Strings(Letters, 1, MaxKeyLen)
AliasNames == Strings(Letters, 1, MaxNameLen)
AliasValues ==
  {AliasList(l) : l \in Strings(AliasNames, 0, MaxAliases)}
    \cup {AliasStr(a) : a \in AliasNames} \cup {AliasOther}
Entries == [key : KeyNames, aliases : AliasValues]
Tables ==
  {t \in Strings(Entries, 0, MaxKeys) :
     \A i, j \in DOMAIN t : t[i].key = t[j].key => i = j}

\* the names a user can ask for
Queries == Strings(Chars, 0, MaxNameLen)

\* no call of AliasManager.get yet
NoCall == [name |-> NoName, result |-> NoName]

\* AutoUpdater.__init__, lines 54-62, and the plugin's own fields, lines 284-289,
\* with auto_update.json as cf and the persisted commit h (0: no version.json)
InitPlugin(cf, h) ==
  /\ phase = "constructed"
  /\ check_interval = DefaultInterval
  /\ auto_update = TRUE
  /\ notify_admin = TRUE
  /\ running = FALSE
  /\ task = None
  /\ loops = [t \in TaskIds |-> NoLoop]
  /\ created = 0
  /\ saves = 0
  /\ stops = 0
  /\ stopAwait = [t \in TaskIds |-> 0]
  /\ term = [pc |-> "idle", target |-> None]
  /\ config_file = cf
  /\ version_file = IF h = 0 THEN AbsentFile ELSE VersionDoc(h, 0)
  /\ assets = h
  /\ upd = IdleUpd
  /\ chk = IdleChk
  /\ sts = IdleSts
  /\ tgl = IdleTgl
  /\ remote_head = 1

\* the plugin as constructed, with the files of an earlier run or none
Init ==
  /\ \E cf \in InitConfigFiles, h \in {0, 1} : InitPlugin(cf, h)
  /\ alias_data = <<>>
  /\ got = NoCall

\* AliasManager.__init__, lines 19-20, on any table
InitAlias ==
  /\ InitPlugin(AbsentFile, 0)
  /\ alias_data \in Tables
  /\ got = NoCall

\* the periodic task and the plugin's start and teardown
NextLoop ==
  \/ Initialize
  \/ \E t \in TaskIds : CheckLoopIterate(t)
  \/ \E t \in TaskIds : CheckLoopFetched(t)
  \/ \E t \in TaskIds : CheckLoopCloned(t)
  \/ \E t \in TaskIds : CheckLoopCancelled(t)
  \/ Terminate
  \/ TerminateReturn

\* the plugin's start and the periodic task up to its first request, whose
\* response stays pending
NextStart ==
  \/ Initialize
  \/ \E t \in TaskIds : CheckLoopIterate(t)
  \/ \E t \in TaskIds : CheckLoopCancelled(t)

\* the setters and the tasks they schedule, no write of auto_update.json failing
NextConfig ==
  \/ \E seconds \in IntervalInputs : SetInterval(seconds)
  \/ \E enabled \in BOOL : SetAutoUpdate(enabled)
  \/ SaveConfigWritten
  \/ StopRun
  \/ \E t \in TaskIds : StopReturn(t)

\* the update_strategy command, the remote repository at rest
NextUpdateCmd ==
  \/ \E ev \in Events : UpdateStrategy(ev)
  \/ UpdateStrategyCloned
  \/ UpdateStrategyFetched

\* set_auto_update and the tasks it schedules
NextToggle ==
  \/ \E enabled \in BOOL : SetAutoUpdate(enabled)
  \/ SaveConfig
  \/ StopRun
  \/ \E t \in TaskIds : StopReturn(t)

\* the setters and the tasks they schedule
NextSetters ==
  \/ \E seconds \in IntervalInputs : SetInterval(seconds)
  \/ NextToggle

\* the update_strategy command and the remote repository
NextUpdate ==
  \/ \E ev \in Events : UpdateStrategy(ev)
  \/ UpdateStrategyCloned
  \/ UpdateStrategyFetched
  \/ RemoteAdvance

\* the check_update command
NextCheck ==
  \/ CheckUpdate
  \/ CheckUpdateFetched

\* the manual commands and the remote repository
NextCommands == NextUpdate \/ NextCheck

\* the update_status command
NextStatus ==
  \/ UpdateStatus
  \/ UpdateStatusFetched

\* the toggle_auto_update command and the tasks it schedules, no write of
\* auto_update.json failing
NextAdmin ==
  \/ \E ev \in Events, action \in ToggleWords : ToggleAutoUpdate(ev, action)
  \/ SaveConfigWritten
  \/ StopRun
  \/ \E t \in TaskIds : StopReturn(t)

\* the alias lookup of the get_strategy command
NextAlias == \E name \in Queries : AliasManagerGet(name)

Next ==
  NextLoop \/ NextSetters \/ NextCommands \/ NextStatus \/ NextAdmin \/ NextAlias

Spec == Init /\ [][Next]_vars

\* the sync cycle against the manual commands, the configuration left as loaded
SpecSync == Init /\ [][NextLoop \/ NextCommands]_vars

\* the life of the periodic task and the configuration, no manual command sent
SpecLife == Init /\ [][NextLoop \/ NextSetters]_vars

\* the periodic task against update_strategy, the other writer of its files
SpecWriters == Init /\ [][NextLoop \/ NextUpdate]_vars

\* the periodic task started, stopped and torn down, check_interval left as loaded
SpecToggle == Init /\ [][NextLoop \/ NextToggle]_vars

\* the three places that compare the remote reference with the persisted one
SpecStatus == Init /\ [][NextLoop \/ NextCheck \/ NextStatus]_vars

\* the administrator commands, sent by any sender, against the periodic task
SpecAdmin == Init /\ [][NextStart \/ NextUpdateCmd \/ NextAdmin]_vars

\* the configuration, its setters and its saves
SpecConfig == Init /\ [][NextStart \/ NextConfig]_vars

\* AliasManager.get on any table and any query
SpecAlias == InitAlias /\ [][NextAlias]_vars

\* a sleep ends (line 111): the task then runs its next iteration
FairWriters == SpecWriters /\ \A t \in TaskIds : WF_vars(CheckLoopIterate(t))

\* the event loop runs a task whose await was cancelled, and one whose awaited
\* task has ended
FairToggle ==
  /\ SpecToggle
  /\ WF_vars(TerminateReturn)
  /\ \A t \in TaskIds : WF_vars(CheckLoopCancelled(t))

----------------------------------------------------------------------------
(* Properties *)

\* task t takes a step of its own (every such step moves its pc)
LoopStep(t) == loops'[t].pc # loops[t].pc

\* the fetch gave no reference: a network error or a non-200 status (None), or a
\* response without a commit identifier (the empty string)
FetchFailed(r) == r \in {None, EmptySha}

\* a timer cycle is between its remote fetch and the end of the cycle
TimerInFlight == \E t \in TaskIds : loops[t].pc \in {"fetch", "clone"}

\* a manual command is fetching, cloning, copying or about to write SyncState
ManualInFlight == upd.pc \in {"clone", "fetch"} \/ chk.pc = "fetch"

\* every task the setters scheduled has run to completion
Quiescent == saves = 0 /\ stops = 0 /\ SumAwait = 0

\* a _check_loop task exists that has not ended and is not being cancelled
LoopAlive == \E t \in TaskIds : loops[t].pc \in Suspended /\ ~loops[t].must_cancel

\* C1: the version file is written only by a timer cycle or an update_strategy
\* command whose own clone exited with code zero and whose own copy loop
\* completed (and whose fetch gave a reference); a step that ends a cycle or a
\* command with a failed fetch, a failed clone, a missing directory or a failed
\* copy leaves the version file as it was.
C1_WriteOnlyAfterCopy ==
  [][/\ \A t \in TaskIds :
          loops'[t].wrote # "none" =>
            /\ loops'[t].clone = "zero"
            /\ loops'[t].copied = "all"
            /\ ~FetchFailed(loops'[t].remote_commit)
     /\ upd'.wrote # "none" =>
          upd'.clone = "zero" /\ upd'.copied = "all" /\ ~FetchFailed(upd'.remote_commit)
     /\ version_file' # version_file =>
          \/ \E t \in TaskIds :
               LoopStep(t) /\ loops[t].pc = "clone" /\ loops'[t].wrote # "none"
          \/ upd.pc = "fetch" /\ upd'.pc = "idle" /\ upd'.wrote # "none"
     /\ \A t \in TaskIds :
          LoopStep(t) /\ loops'[t].report \in {"fetch_failed", "failure"}
            => version_file' = version_file
     /\ (/\ upd.pc # "idle"
         /\ upd'.pc = "idle"
         /\ \/ upd'.clone # "zero"
            \/ upd'.copied # "all"
            \/ FetchFailed(upd'.remote_commit))
          => version_file' = version_file
    ]_vars

\* C1 witness: a timer cycle wrote the version file after a full copy, and an
\* update_strategy command ended on a failed clone
C1_Witness ==
  /\ \E t \in TaskIds :
       /\ loops[t].wrote = "ok"
       /\ version_file.state = "ok"
       /\ version_file.commit_hash = loops[t].remote_commit
  /\ upd.pc = "idle" /\ upd.clone = "nonzero"

\* C2: no timer cycle and manual command are in flight at the same time.
C2_OneCycleAtATime == ~(TimerInFlight /\ ManualInFlight)

\* C3: a timer cycle whose fetched reference is non-empty and equal to the
\* persisted commit_hash goes to sleep without a clone, a copy, a notification or
\* a write, and leaves the version file and the asset directory unchanged.
C3_UpToDateNoEffect ==
  [][\A t \in TaskIds :
       (/\ loops[t].pc = "fetch"
        /\ LoopStep(t)
        /\ ~FetchFailed(loops'[t].remote_commit)
        /\ loops'[t].remote_commit = GetLocalCommit(version_file))
       => /\ loops'[t].pc = "sleep"
          /\ loops'[t].clone = "none"
          /\ loops'[t].copied = "none"
          /\ loops'[t].wrote = "none"
          /\ ~loops'[t].notified
          /\ version_file' = version_file
          /\ assets' = assets
    ]_vars

\* C3 witness: a cycle ended up to date against a version file written earlier
C3_Witness ==
  \E t \in TaskIds :
    /\ loops[t].pc = "sleep"
    /\ loops[t].report = "up_to_date"
    /\ version_file.state = "ok"
    /\ loops[t].remote_commit = version_file.commit_hash
    /\ version_file.update_time = 1

C5_LoopIffAutoUpdate ==
  (phase = "initialized" /\ Quiescent) => (LoopAlive <=> auto_update)

\* C6: terminate()'s stop() returns (it does not wait for ever, and once returned
\* it waits no more); the task it cancelled has then ended; a
\* cancelled task ends at its next step, from any await, without touching the
\* version file or the assets; after stop() has returned no cycle starts and the
\* version file is not written.
C6_TeardownCancels ==
  /\ []<>(term.pc # "await")
  /\ [][term.pc = "returned" => term'.pc = "returned"]_vars
  /\ [](term.pc = "returned" /\ term.target # None => loops[term.target].pc \in Ended)
  /\ [][\A t \in TaskIds :
          loops[t].must_cancel /\ LoopStep(t)
            => /\ loops'[t].pc = "cancelled"
               /\ version_file' = version_file
               /\ assets' = assets]_vars
  /\ [][term.pc = "returned"
          => /\ version_file' = version_file
             /\ \A t \in TaskIds :
                  loops'[t].pc \in {"fetch", "clone"} => loops'[t].pc = loops[t].pc]_vars

\* C6 witness: terminate() returned after cancelling a task that had written the
\* version file in an earlier cycle
C6_Witness ==
  /\ term.pc = "returned"
  /\ term.target # None
  /\ loops[term.target].pc = "cancelled"
  /\ version_file.state = "ok"

\* C7: a timer cycle whose fetch fails goes to sleep without a clone, a copy, a
\* notification or a write; check_update then replies with the failure message;
\* neither changes the version file, the configuration file or the assets.
C7_FetchFailureNoEffect ==
  [][/\ \A t \in TaskIds :
          (/\ loops[t].pc = "fetch"
           /\ ~loops[t].must_cancel
           /\ LoopStep(t)
           /\ FetchFailed(loops'[t].remote_commit))
          => /\ loops'[t].pc = "sleep"
             /\ loops'[t].report = "fetch_failed"
             /\ loops'[t].clone = "none"
             /\ loops'[t].copied = "none"
             /\ loops'[t].wrote = "none"
             /\ ~loops'[t].notified
             /\ UNCHANGED <<version_file, config_file, assets>>
     /\ (chk.pc = "fetch" /\ chk'.pc = "idle" /\ FetchFailed(chk'.remote_commit))
          => /\ chk'.replies = <<"checking", "fetch_failed">>
             /\ UNCHANGED <<version_file, config_file, assets>>
    ]_vars

\* C7 witness: a timer cycle and a check_update command both ended on a failed fetch
C7_Witness ==
  /\ \E t \in TaskIds : loops[t].pc = "sleep" /\ loops[t].report = "fetch_failed"
  /\ chk.replies = <<"checking", "fetch_failed">>

\* C8: a timer cycle reports success only if the version file then holds the
\* reference the cycle fetched.
C8_SuccessMeansPersisted ==
  [][\A t \in TaskIds :
       LoopStep(t) /\ loops'[t].report = "success"
         => /\ version_file'.state = "ok"
            /\ version_file'.commit_hash = loops'[t].remote_commit
    ]_vars

\* C9: whenever a _check_loop task sleeps, check_interval is at least 300.
C9_IntervalFloor ==
  \A t \in TaskIds : loops[t].pc = "sleep" => check_interval >= MinInterval

\* C10: no failure of a cycle ends the _check_loop task: the task never dies of
\* an exception, it ends only when cancelled or when _running is false, every
\* cycle ends in the sleep, and every sleep is followed by another cycle unless
\* the task is cancelled or _running is false.
C10_FailureContained ==
  /\ [](\A t \in TaskIds : loops[t].pc # "crashed")
  /\ [][\A t \in TaskIds :
          /\ LoopStep(t) /\ loops'[t].pc \in Ended => loops[t].must_cancel \/ ~running
          /\ LoopStep(t) /\ loops[t].pc \in {"fetch", "clone"} /\ ~loops[t].must_cancel
               => loops'[t].pc \in {"clone", "sleep"}]_vars
  /\ \A t \in TaskIds :
       (loops[t].pc = "sleep") ~>
         (loops[t].pc = "fetch" \/ loops[t].pc \in Ended \/ loops[t].must_cancel
            \/ ~running)

\* C10 witness: a task sleeps after a cycle that failed in the clone or the copy
C10_Witness ==
  \E t \in TaskIds :
    /\ loops[t].pc = "sleep"
    /\ loops[t].report = "failure"
    /\ loops[t].copied = "partial"
    /\ running
    /\ ~loops[t].must_cancel

\* the _check_loop tasks that have not ended and whose cancellation is not pending
LiveLoops == {t \in TaskIds : loops[t].pc \in Suspended /\ ~loops[t].must_cancel}

\* C11: check_update is read-only: none of its steps starts a clone, copies a
\* file, writes the version file or the configuration, or changes anything but
\* the handler's own state; when the fetch succeeded it replies up-to-date if the
\* fetched reference equals the persisted commit_hash and new-version if they
\* differ or none is persisted.
C11_CheckUpdateReadOnly ==
  [][/\ chk' # chk =>
          UNCHANGED <<version_file, config_file, assets, config, running, task, loops,
                      created, sched, upd, remote_head>>
     /\ (chk.pc = "fetch" /\ chk'.pc = "idle" /\ ~FetchFailed(chk'.remote_commit))
          => /\ chk'.remote_commit = GetLocalCommit(version_file)
                  => chk'.replies = <<"checking", "up_to_date">>
             /\ chk'.remote_commit # GetLocalCommit(version_file)
                  => chk'.replies = <<"checking", "new_version">>
    ]_vars

\* C11 witness: check_update replied new-version against an older persisted
\* reference, which it left in place
C11_Witness ==
  /\ chk.pc = "idle"
  /\ chk.replies = <<"checking", "new_version">>
  /\ chk.remote_commit = 2
  /\ version_file = VersionDoc(1, 0)
  /\ assets = 1

\* the query of the last call as the lookup compares it: stripped, in lower case
Asked == Lower(Strip(got.name))

\* some key of the table equals the query, case ignored
KeyAsked == \E i \in DOMAIN alias_data : Lower(alias_data[i].key) = Asked

\* the entries one of whose alternate names equals the query, case ignored
ExactAlias ==
  {i \in DOMAIN alias_data :
     \E k \in DOMAIN alias_data[i].aliases.items :
       Lower(alias_data[i].aliases.items[k]) = Asked}

\* the entries one of whose alternate names contains the query or is contained
\* in it, case ignored
SubstringAlias ==
  {i \in DOMAIN alias_data :
     \E k \in DOMAIN alias_data[i].aliases.items :
       \/ Contains(Lower(alias_data[i].aliases.items[k]), Asked)
       \/ Contains(Asked, Lower(alias_data[i].aliases.items[k]))}

\* C12: when no key equals the query but some key has an alternate name equal to
\* it (case ignored), the result is a key with such an exact alternate name.
C12_ExactBeforeSubstring ==
  (got # NoCall /\ ~KeyAsked /\ ExactAlias # {})
    => \E i \in ExactAlias : got.result = alias_data[i].key

\* C13: a query that is a key of the table, in any case and with any whitespace
\* around it, returns that key as the table stores it.
C13_KeyAnyCase ==
  got # NoCall =>
    \A i \in DOMAIN alias_data :
      (/\ Lower(alias_data[i].key) = Asked
       /\ \A j \in DOMAIN alias_data : Lower(alias_data[j].key) = Asked => j = i)
      => got.result = alias_data[i].key

\* C14: without an exact match of a key or of an alternate name, a query that is
\* contained in an alternate name or contains one returns the key of such an
\* alternate name; a query in no exact or substring relation with any key or
\* alternate name returns none.
C14_SubstringEitherWay ==
  (got # NoCall /\ ~KeyAsked /\ ExactAlias = {}) =>
    /\ SubstringAlias # {} => \E i \in SubstringAlias : got.result = alias_data[i].key
    /\ (/\ SubstringAlias = {}
        /\ \A i \in DOMAIN alias_data :
             /\ ~Contains(Lower(alias_data[i].key), Asked)
             /\ ~Contains(Asked, Lower(alias_data[i].key)))
         => got.result = NoName

\* C15: when _check_admin returns false, update_strategy and toggle_auto_update
\* yield exactly one reply, the denial, and change nothing else: no clone is
\* started, no file is copied or written, auto_update and the configuration file
\* keep their values, no save or stop is scheduled and no loop is started.
C15_DenialNoEffect ==
  [][/\ (upd' # upd /\ upd'.admin = "refused")
          => /\ upd'.pc = "idle"
             /\ upd'.replies = <<"denied">>
             /\ upd'.clone = "none" /\ upd'.copied = "none" /\ upd'.wrote = "none"
             /\ UNCHANGED <<version_file, config_file, assets, config, running, task,
                            loops, created, sched, tgl>>
     /\ (tgl' # tgl /\ tgl'.admin = "refused")
          => /\ tgl'.replies = <<"denied">>
             /\ UNCHANGED <<version_file, config_file, assets, config, running, task,
                            loops, created, sched, upd>>
    ]_vars

\* C15 witness: both commands were refused while the periodic task was waiting
\* for a response and auto_update.json held what an earlier, allowed, command had
\* saved
C15_Witness ==
  /\ upd.admin = "refused" /\ upd.replies = <<"denied">>
  /\ tgl.admin = "refused" /\ tgl.replies = <<"denied">>
  /\ \E t \in TaskIds : loops[t].pc = "fetch"
  /\ auto_update
  /\ config_file = ConfigDoc(DefaultInterval, TRUE, TRUE)

\* C16: whenever the version file holds commit_hash h, every file of the asset
\* directory comes from a clone taken at reference h or later.
C16_HashNotAheadOfAssets ==
  version_file.state = "ok" => assets >= version_file.commit_hash

\* C17: update_status reports a new version exactly when the timer cycle would
\* start an update and exactly when check_update would report a new version, for
\* the same fetched remote reference and persisted local reference.
C17_DecisionsAgree ==
  [][(sts.pc = "fetch" /\ sts'.pc = "idle") =>
       /\ sts'.replies = <<"new_version">>
            <=> (/\ ~FetchFailed(sts'.remote_commit)
                 /\ NeedsUpdate(sts'.remote_commit, sts.local_commit))
       /\ sts'.replies = <<"new_version">>
            <=> CheckUpdateReply(sts'.remote_commit, sts.local_commit) = "new_version"
    ]_vars

\* C18: at most one _check_loop task is live, and while _running is true _task
\* refers to it.
C18_OneLiveLoop ==
  /\ Cardinality(LiveLoops) <= 1
  /\ running => task # None /\ LiveLoops = {task}

\* C18 witness: the first task was cancelled by stop(), a second one was started
\* by set_auto_update(True) and is the one _task refers to
C18_Witness ==
  /\ running
  /\ task = 2
  /\ loops[1].pc = "cancelled"
  /\ loops[2].pc = "sleep"
  /\ stops = 0 /\ SumAwait = 0

\* C19: with no write of auto_update.json failing, every _save_config task that
\* runs leaves the document holding the values then current, and once no save is
\* pending the document, if there is one, holds exactly the current
\* check_interval, auto_update and notify_admin, and _load_config would restore
\* them.
C19_ConfigConverges ==
  /\ [][saves' < saves =>
          /\ config_file'.state = "ok"
          /\ LoadConfig(config_file') = <<check_interval', auto_update', notify_admin'>>
       ]_vars
  /\ []((phase = "initialized" /\ saves = 0) =>
          /\ LoadConfig(config_file) = <<check_interval, auto_update, notify_admin>>
          /\ config_file.state = "ok" =>
               /\ config_file.check_interval = check_interval
               /\ config_file.auto_update = auto_update
               /\ config_file.notify_admin = notify_admin)

\* C19 witness: set_interval(60) and set_auto_update(False) were called on a
\* plugin whose periodic task was running, their saves have run, the task was
\* stopped and the document holds the clamped interval and the new switch
C19_Witness ==
  /\ saves = 0
  /\ created = 1
  /\ loops[1].pc = "cancelled"
  /\ check_interval = MinInterval
  /\ ~auto_update
  /\ notify_admin
  /\ config_file = [state |-> "ok", check_interval |-> MinInterval,
                    auto_update |-> FALSE, notify_admin |-> TRUE]

====
